---- MODULE Spec2Model ----
(***************************************************************************)
(* The agent conversation state machine of kt-assistant-service:           *)
(* agentConversationService.startSession / handleMessage, the llmService   *)
(* wrappers around the AI engine client, the AgentSession schema and the   *)
(* JiraService calls a confirmation makes.                                 *)
(*                                                                         *)
(* Text is a sequence of one-character strings, so that trim(),            *)
(* toLowerCase() and the two regular expressions are computed, not assumed.*)
(***************************************************************************)
EXTENDS Integers, Sequences, FiniteSets, TLC

\* ------------------------------------------------------------------ bounds
MaxSessions == 1
MaxTasks == 2
MaxStoredTasks == 3
MaxRequests == 4
MaxUserSessions == 3
MaxCounter == 102
StartCounter == 98

\* ------------------------------------------------------------------- text
Undefined == <<"undefined">>
Thrown == <<"thrown">>

UpperCase == <<"A", "B", "C", "D", "E", "F", "G", "H", "I", "J", "K", "L", "M", "N", "O", "P", "Q", "R", "S", "T", "U", "V", "W", "X", "Y", "Z">>
LowerCase == <<"a", "b", "c", "d", "e", "f", "g", "h", "i", "j", "k", "l", "m", "n", "o", "p", "q", "r", "s", "t", "u", "v", "w", "x", "y", "z">>
Digits == {"0", "1", "2", "3", "4", "5", "6", "7", "8", "9"}
WhiteSpace == {" ", "\t", "\n", "\r"}

Range(s) == {s[i] : i \in DOMAIN s}

\* \w of a regular expression without the u flag
WordChars == Range(UpperCase) \cup Range(LowerCase) \cup Digits \cup {"_"}

IsWordChar(c) == c \in WordChars

LowerOf ==
  [c \in Range(UpperCase) |-> LowerCase[CHOOSE i \in DOMAIN UpperCase : UpperCase[i] = c]]

ToLowerChar(c) == IF c \in DOMAIN LowerOf THEN LowerOf[c] ELSE c

\* String.prototype.toLowerCase
ToLowerCase(s) == [i \in DOMAIN s |-> ToLowerChar(s[i])]

RECURSIVE TrimStart(_)
TrimStart(s) ==
  IF s # <<>> /\ Head(s) \in WhiteSpace THEN TrimStart(Tail(s)) ELSE s

RECURSIVE TrimEnd(_)
TrimEnd(s) ==
  IF s # <<>> /\ s[Len(s)] \in WhiteSpace THEN TrimEnd(SubSeq(s, 1, Len(s) - 1)) ELSE s

\* String.prototype.trim
Trim(s) == TrimEnd(TrimStart(s))

\* \b at the gap before character k (1 <= k <= Len(s) + 1)
WordBoundary(s, k) ==
  LET before == k > 1 /\ IsWordChar(s[k - 1])
      after == k <= Len(s) /\ IsWordChar(s[k])
  IN before # after

\* a variant of the test without the i flag
TestWordsCaseSensitive(phrases, s) ==
  \E p \in phrases : \E k \in 1..(Len(s) + 1) :
    /\ k + Len(p) - 1 <= Len(s)
    /\ WordBoundary(s, k)
    /\ WordBoundary(s, k + Len(p))
    /\ SubSeq(s, k, k + Len(p) - 1) = p

\* /\b(p1|p2|...)\b/i.test(s)
TestWords(phrases, s) ==
  \E p \in phrases : \E k \in 1..(Len(s) + 1) :
    /\ k + Len(p) - 1 <= Len(s)
    /\ WordBoundary(s, k)
    /\ WordBoundary(s, k + Len(p))
    /\ ToLowerCase(SubSeq(s, k, k + Len(p) - 1)) = p

AffirmativePhrases ==
  { <<"y", "e", "s">>, <<"y", "e", "p">>, <<"y", "e", "a", "h">>, <<"y">>,
    <<"o", "k">>, <<"o", "k", "a", "y">>, <<"s", "u", "r", "e">>,
    <<"g", "o", " ", "a", "h", "e", "a", "d">>,
    <<"c", "o", "n", "f", "i", "r", "m">>,
    <<"p", "r", "o", "c", "e", "e", "d">> }

DonePhrases ==
  { <<"d", "o", "n", "e">>, <<"c", "o", "m", "p", "l", "e", "t", "e", "d">>,
    <<"c", "o", "m", "p", "l", "e", "t", "e">>,
    <<"f", "i", "n", "i", "s", "h", "e", "d">>,
    <<"r", "e", "s", "o", "l", "v", "e", "d">>,
    <<"c", "l", "o", "s", "e", "d">> }

\* ---------------------------------------------------------- user messages
MsgCompleted == <<"c", "o", "m", "p", "l", "e", "t", "e", "d", ",", " ", "a", "d", "d", "e", "d", " ", "t", "r", "a", "c", "k", "i", "n", "g">>
MsgOk == <<"o", "k">>
MsgYes == <<"y", "e", "s">>
MsgNo == <<"n", "o">>

Messages == {MsgCompleted, MsgOk, MsgYes, MsgNo}

\* the two tests of handleMessage; their value on the messages of the model is
\* computed once
AffirmativeMessages == {m \in Messages : TestWords(AffirmativePhrases, m)}
DoneMessages == {m \in Messages : TestWords(DonePhrases, m)}

isAffirmative(s) ==
  IF s \in Messages THEN s \in AffirmativeMessages ELSE TestWords(AffirmativePhrases, s)

saidDone(s) ==
  IF s \in Messages THEN s \in DoneMessages ELSE TestWords(DonePhrases, s)

\* --------------------------------------------------------- the AI engine
DefaultDraft == <<"U", "p", "d", "a", "t", "e", " ", "n", "o", "t", "e", "d", ".">>
ContentDraft == <<" ", "A", "d", "d", "e", "d", ".", " ">>
ContentEdited == <<"T", "r", "a", "c", "k", "e", "d", "\n">>
ContentBlank == <<" ">>
ContentStatusOnly == <<" ", "S", "t", "a", "t", "u", "s", "_", "O", "n", "l", "y", "\n">>
ContentOther == <<"b", "o", "t", "h">>
status_only == <<"s", "t", "a", "t", "u", "s", "_", "o", "n", "l", "y">>
comment_only == <<"c", "o", "m", "m", "e", "n", "t", "_", "o", "n", "l", "y">>
comment_and_status == <<"c", "o", "m", "m", "e", "n", "t", "_", "a", "n", "d", "_", "s", "t", "a", "t", "u", "s">>

UpdateTypes == {status_only, comment_only, comment_and_status}

\* An AIEngineProcessResponse, or the axios error of the POST (error = TRUE)
Response(error, success, content) ==
  [error |-> error, success |-> success, generated_content |-> content]

NoResponse == Response(FALSE, FALSE, Undefined)
TransportError == Response(TRUE, FALSE, Undefined)
EngineFailure == Response(FALSE, FALSE, Undefined)
EmptyContent == Response(FALSE, TRUE, <<>>)

\* what the engine may answer to each agent_operation
EngineReplies(operation) ==
  {TransportError, EngineFailure, EmptyContent, Response(FALSE, TRUE, ContentBlank)} \cup
  {Response(FALSE, TRUE, c) :
     c \in CASE operation = "draft_summary" -> {ContentDraft}
             [] operation = "apply_edits" -> {ContentEdited}
             [] operation = "analyze_update" ->
                  {comment_only, ContentStatusOnly, comment_and_status, ContentOther}
             [] OTHER -> {}}

\* ensureSuccess: TRUE when it returns, FALSE when it throws
ensureSuccess(response) ==
  ~(~response.success \/ response.generated_content \in {Undefined, <<>>})

generateSummary(response) ==
  IF response.error THEN Thrown
  ELSE IF ~ensureSuccess(response) THEN Thrown
  ELSE Trim(response.generated_content)

applyEdits(response) ==
  IF response.error THEN Thrown
  ELSE IF ~ensureSuccess(response) THEN Thrown
  ELSE Trim(response.generated_content)

analyzeUpdateType(response) ==
  IF response.error THEN Thrown
  ELSE IF ~response.success \/ response.generated_content \in {Undefined, <<>>}
    THEN comment_only
  ELSE LET normalized == ToLowerCase(Trim(response.generated_content))
       IN IF normalized = status_only \/ normalized = comment_only
             \/ normalized = comment_and_status
            THEN normalized
            ELSE comment_only

\* ------------------------------------------------------ the session model
AWAITING_UPDATE == "awaiting_update"
AWAITING_EDIT_DECISION == "awaiting_edit_decision"
AWAITING_EDIT_INPUT == "awaiting_edit_input"
AWAITING_CONFIRM == "awaiting_confirm"
COMPLETED == "completed"

AgentTaskState ==
  {AWAITING_UPDATE, AWAITING_EDIT_DECISION, AWAITING_EDIT_INPUT, AWAITING_CONFIRM, COMPLETED}

Users == {"u1"}
TaskIds == 1..MaxTasks
IssueIds == 1..(IF MaxStoredTasks > MaxTasks THEN MaxStoredTasks ELSE MaxTasks)
InProgress == "In Progress"
Done == "Done"

\* ITaskState as the handler holds it in memory (title and the two dates are
\* never written and decide nothing, so they are left out)
TaskDoc(taskId, status, state, draft, final, pending) ==
  [taskId |-> taskId, status |-> status, state |-> state,
   draftSummary |-> draft, finalSummary |-> final, pendingStatusDone |-> pending]

\* TaskStateSchema: the paths a save writes. pendingStatusDone is no path of
\* the schema, so strict mode leaves it out of the stored document.
TaskStateSchema(task) == [task EXCEPT !.pendingStatusDone = FALSE]

\* session.save(): the document as the store keeps it
AgentSessionSchema(doc) ==
  [doc EXCEPT !.tasks = [i \in DOMAIN doc.tasks |-> TaskStateSchema(doc.tasks[i])]]

NoSession == [userId |-> "", currentIndex |-> -1, tasks |-> <<>>]

VARIABLES
  sessions,        \* the AgentSession collection; the session id is the position
  jira,            \* the ticket store: per issue, its comment count and status
  pendingAssigned, \* per session and task: handleMessage assigned pendingStatusDone = true
  finalized,       \* per session and task: the turns that finalized the task (0, 1, 2 = more)
  last,            \* what the last service call did (its inputs, calls and result)
  workers,         \* the requests in flight (the concurrent specifications)
  received,        \* the requests the workers have taken so far
  detected,        \* the last message put to isAffirmative and saidDone, with their answers
  service,         \* the AIService: the rate:<userId> counters and its last request
  usage            \* AssistantService: today's gpt-usage counter of the user and the
                   \* completion calls started for the user today

\* the state outside the conversation service
outside == <<detected, service, usage>>

vars == <<sessions, jira, pendingAssigned, finalized, last, workers, received, outside>>

\* ------------------------------------------------------------ the ticket API
\* getPendingTasks: the JQL keeps the issues of the user that are "In Progress"
\* and were created in the last 7 days; `recent` stands for the date filter.
RECURSIVE SelectIssues(_, _)
SelectIssues(ids, keep) ==
  IF ids = <<>> THEN <<>>
  ELSE IF Head(ids) \in keep
    THEN <<Head(ids)>> \o SelectIssues(Tail(ids), keep)
    ELSE SelectIssues(Tail(ids), keep)

getPendingTasks(recent) ==
  LET ids == SelectIssues([i \in 1..MaxTasks |-> i],
                          {t \in recent : jira[t].status = InProgress})
  IN [k \in DOMAIN ids |-> [taskId |-> ids[k], status |-> jira[ids[k]].status]]

\* the comments of an issue are counted 0, 1, 2, where 2 stands for two or more
OneMore(count) == IF count < 2 THEN count + 1 ELSE count

\* JiraService.addComment / updateTask(type "status") on the store
JiraAfter(taskId, commented, transitioned) ==
  [jira EXCEPT ![taskId] =
     [comments |-> IF commented THEN OneMore(@.comments) ELSE @.comments,
      status |-> IF transitioned THEN Done ELSE @.status]]

\* ------------------------------------------------------------ startSession
startSession(userId, pendingTasks) ==
  [userId |-> userId,
   currentIndex |-> 0,
   tasks |-> [k \in DOMAIN pendingTasks |->
                TaskDoc(pendingTasks[k].taskId, pendingTasks[k].status,
                        AWAITING_UPDATE, Undefined, Undefined, FALSE)]]

\* ----------------------------------------------------------- handleMessage
\* The calls of one turn: the agent_operation sent to the engine and its
\* answer, the update type analyzeUpdateType returned and the one committed,
\* and the outcome of each ticket-API call ("none" when it was not made).
NoCalls ==
  [engineOp |-> "none", engine |-> NoResponse, updateType |-> Undefined,
   finalType |-> Undefined, comment |-> "none", commentText |-> Undefined,
   lookup |-> "none", transition |-> "none"]

EngineCall(operation, response) ==
  [NoCalls EXCEPT !.engineOp = operation, !.engine = response]

\* a turn that ends in an exception: nothing is saved
Throws(doc, calls) ==
  [threw |-> TRUE, saved |-> FALSE, doc |-> doc, reply |-> "none", calls |-> calls]

\* a turn that returns a reply; saved tells whether session.save() ran
Returns(saved, doc, reply, calls) ==
  [threw |-> FALSE, saved |-> saved, doc |-> doc, reply |-> reply, calls |-> calls]

\* session.tasks[session.currentIndex]: undefined outside the array
UndefinedTask == TaskDoc(0, "", "undefined", Undefined, Undefined, FALSE)

CurrentTask(doc) ==
  IF doc.currentIndex + 1 \in DOMAIN doc.tasks
    THEN doc.tasks[doc.currentIndex + 1]
    ELSE UndefinedTask

SetTask(doc, task) == [doc EXCEPT !.tasks[doc.currentIndex + 1] = task]

\* a variant of the guard that lets currentIndex = tasks.length through
IndexDriftOffByOne(doc) == doc.currentIndex < 0 \/ doc.currentIndex > Len(doc.tasks)

\* Guard: index drift
IndexDrift(doc) == doc.currentIndex < 0 \/ doc.currentIndex >= Len(doc.tasks)

DriftGuard(doc) == IF IndexDrift(doc) THEN [doc EXCEPT !.currentIndex = 0] ELSE doc

\* a variant of the case that advances the state and saves before the engine
\* has answered
CaseAwaitingUpdateSaveFirst(doc, userMessage, response) ==
  LET task == CurrentTask(doc)
      draftRaw == generateSummary(response)
      draft == IF Trim(draftRaw) = <<>> THEN DefaultDraft ELSE Trim(draftRaw)
      task0 == [task EXCEPT !.state = AWAITING_EDIT_DECISION]
      task1 == [task0 EXCEPT !.draftSummary = draft,
                             !.pendingStatusDone = IF saidDone(userMessage) THEN TRUE ELSE @]
  IN IF draftRaw = Thrown
       THEN [Throws(SetTask(doc, task0), EngineCall("draft_summary", response))
               EXCEPT !.saved = TRUE]
       ELSE Returns(TRUE, SetTask(doc, task1), "DraftPrompt",
                    EngineCall("draft_summary", response))

CaseAwaitingUpdate(doc, userMessage, response) ==
  LET task == CurrentTask(doc)
      draftRaw == generateSummary(response)
      draft == IF Trim(draftRaw) = <<>> THEN DefaultDraft ELSE Trim(draftRaw)
      task1 == [task EXCEPT !.draftSummary = draft,
                            !.pendingStatusDone = IF saidDone(userMessage) THEN TRUE ELSE @,
                            !.state = AWAITING_EDIT_DECISION]
  IN IF draftRaw = Thrown
       THEN Throws(doc, EngineCall("draft_summary", response))
       ELSE Returns(TRUE, SetTask(doc, task1), "DraftPrompt",
                    EngineCall("draft_summary", response))

\* a variant of the case with its two branches swapped
CaseAwaitingEditDecisionSwapped(doc, userMessage) ==
  LET task == CurrentTask(doc)
  IN IF ~isAffirmative(userMessage)
       THEN Returns(TRUE, SetTask(doc, [task EXCEPT !.state = AWAITING_EDIT_INPUT]),
                    "EditPrompt", NoCalls)
       ELSE Returns(TRUE, SetTask(doc, [task EXCEPT !.state = AWAITING_CONFIRM]),
                    "ConfirmPrompt", NoCalls)

CaseAwaitingEditDecision(doc, userMessage) ==
  LET task == CurrentTask(doc)
  IN IF isAffirmative(userMessage)
       THEN Returns(TRUE, SetTask(doc, [task EXCEPT !.state = AWAITING_EDIT_INPUT]),
                    "EditPrompt", NoCalls)
       ELSE Returns(TRUE, SetTask(doc, [task EXCEPT !.state = AWAITING_CONFIRM]),
                    "ConfirmPrompt", NoCalls)

CaseAwaitingEditInput(doc, userMessage, response) ==
  LET task == CurrentTask(doc)
      updatedRaw == applyEdits(response)
      updatedSummary == IF Trim(updatedRaw) = <<>> THEN task.draftSummary ELSE Trim(updatedRaw)
      task1 == [task EXCEPT !.draftSummary = updatedSummary, !.state = AWAITING_CONFIRM]
  IN IF updatedRaw = Thrown
       THEN Throws(doc, EngineCall("apply_edits", response))
       ELSE Returns(TRUE, SetTask(doc, task1), "UpdatedPrompt",
                    EngineCall("apply_edits", response))

\* a variant of the advance that takes the next index without looking at the
\* task's state
NextActionableNoSkip(tasks, nextIndex) == IF ~(nextIndex < Len(tasks)) THEN -1 ELSE nextIndex

\* the while loop of the advance: the first index >= nextIndex whose task is
\* not COMPLETED, or -1 when the loop runs off the end
RECURSIVE NextActionable(_, _)
NextActionable(tasks, nextIndex) ==
  IF ~(nextIndex < Len(tasks)) THEN -1
  ELSE IF tasks[nextIndex + 1].state # COMPLETED THEN nextIndex
  ELSE NextActionable(tasks, nextIndex + 1)

\* a variant of the finalize that goes back to the first task when there is
\* no next one
FinalizeWrapAround(doc) ==
  LET task == CurrentTask(doc)
      done == SetTask(doc, [task EXCEPT !.finalSummary = task.draftSummary,
                                        !.state = COMPLETED])
      nextIndex == NextActionable(done.tasks, done.currentIndex + 1)
  IN IF nextIndex # -1
       THEN [done EXCEPT !.currentIndex = nextIndex,
                         !.tasks[nextIndex + 1].state = AWAITING_UPDATE]
       ELSE [done EXCEPT !.currentIndex = 0, !.tasks[1].state = AWAITING_UPDATE]

\* a variant of the finalize that completes the task and stays on it
FinalizeNoAdvance(doc) ==
  LET task == CurrentTask(doc)
  IN SetTask(doc, [task EXCEPT !.finalSummary = task.draftSummary, !.state = COMPLETED])

\* finalize current task, then advance
Finalize(doc) ==
  LET task == CurrentTask(doc)
      done == SetTask(doc, [task EXCEPT !.finalSummary = task.draftSummary,
                                        !.state = COMPLETED])
      nextIndex == NextActionable(done.tasks, done.currentIndex + 1)
  IN IF nextIndex # -1
       THEN [done EXCEPT !.currentIndex = nextIndex,
                         !.tasks[nextIndex + 1].state = AWAITING_UPDATE]
       ELSE done

Advanced(doc) == NextActionable(doc.tasks, doc.currentIndex + 1) # -1

\* a variant of the test that takes every message as a confirmation
ConfirmDeclinedNever(userMessage) == FALSE

\* if (!isAffirmative(userMessage)) return ... "I won't update it yet"
ConfirmDeclined(userMessage) == ~isAffirmative(userMessage)

\* a variant of the test that never asks for the transition
NeedsTransitionNever(task) == FALSE

\* if (task.status !== "Done")
NeedsTransition(task) == task.status # Done

\* If user implied completion earlier, force status update too
ForceStatus(task, updateType) ==
  IF task.pendingStatusDone /\ updateType = comment_only
    THEN comment_and_status
    ELSE updateType

\* a variant of the commit that takes comment_and_status for comment_only
CommitCallsCommentOnly(task, updateType, addOk, lookupOk, applyOk) ==
  LET comment == IF updateType \in {comment_only, comment_and_status}
                   THEN (IF addOk THEN "ok" ELSE "error")
                   ELSE "none"
      wantStatus == /\ updateType = status_only
                    /\ NeedsTransition(task)
      lookup == IF wantStatus THEN (IF lookupOk THEN "ok" ELSE "error") ELSE "none"
      transition == IF lookup = "ok" THEN (IF applyOk THEN "ok" ELSE "error") ELSE "none"
  IN [comment |-> comment,
      commentText |-> IF comment = "none" THEN Undefined ELSE task.draftSummary,
      lookup |-> lookup, transition |-> transition]

\* the ticket-API calls of a confirmation, by update type. addOk, lookupOk and
\* applyOk are the outcomes addComment, getTransitionId and updateTask would
\* have; a call after a failed one is not made.
CommitCalls(task, updateType, addOk, lookupOk, applyOk) ==
  LET comment == IF updateType \in {comment_only, comment_and_status}
                   THEN (IF addOk THEN "ok" ELSE "error")
                   ELSE "none"
      wantStatus == /\ updateType \in {status_only, comment_and_status}
                    /\ comment # "error"
                    /\ NeedsTransition(task)
      lookup == IF wantStatus THEN (IF lookupOk THEN "ok" ELSE "error") ELSE "none"
      transition == IF lookup = "ok" THEN (IF applyOk THEN "ok" ELSE "error") ELSE "none"
  IN [comment |-> comment,
      commentText |-> IF comment = "none" THEN Undefined ELSE task.draftSummary,
      lookup |-> lookup, transition |-> transition]

CaseAwaitingConfirm(doc, userMessage, response, addOk, lookupOk, applyOk) ==
  LET task == CurrentTask(doc)
      analyzed == analyzeUpdateType(response)
      updateType == ForceStatus(task, analyzed)
      commit == CommitCalls(task, updateType, addOk, lookupOk, applyOk)
      calls == [EngineCall("analyze_update", response) EXCEPT
                  !.updateType = analyzed, !.finalType = updateType,
                  !.comment = commit.comment, !.commentText = commit.commentText,
                  !.lookup = commit.lookup, !.transition = commit.transition]
      synced == SetTask(doc, [task EXCEPT
                  !.status = IF commit.transition = "ok" THEN Done ELSE @])
  IN IF ConfirmDeclined(userMessage)
       THEN Returns(FALSE, doc, "WontUpdate", NoCalls)
     ELSE IF analyzed = Thrown
       THEN Throws(doc, EngineCall("analyze_update", response))
     ELSE IF "error" \in {commit.comment, commit.lookup, commit.transition}
       THEN Throws(synced, calls)
     ELSE Returns(TRUE, Finalize(synced),
                  IF Advanced(synced) THEN "NextTask" ELSE "AllDone",
                  calls)

\* switch (task.state)
SwitchState(doc, userMessage, response, addOk, lookupOk, applyOk) ==
  LET task == CurrentTask(doc)
  IN CASE task = UndefinedTask ->
            Throws(doc, NoCalls)   \* TypeError: reading state of undefined
       [] task.state = AWAITING_UPDATE ->
            CaseAwaitingUpdate(doc, userMessage, response)
       [] task.state = AWAITING_EDIT_DECISION ->
            CaseAwaitingEditDecision(doc, userMessage)
       [] task.state = AWAITING_EDIT_INPUT ->
            CaseAwaitingEditInput(doc, userMessage, response)
       [] task.state = AWAITING_CONFIRM ->
            CaseAwaitingConfirm(doc, userMessage, response, addOk, lookupOk, applyOk)
       [] OTHER -> Returns(FALSE, doc, "AllComplete", NoCalls)

\* the agent_operation the switch sends to the engine for this document
OperationOf(found, userMessage) ==
  IF found.tasks = <<>> THEN "none"
  ELSE LET state == CurrentTask(DriftGuard(found)).state
       IN IF state = AWAITING_UPDATE THEN "draft_summary"
          ELSE IF state = AWAITING_EDIT_INPUT THEN "apply_edits"
          ELSE IF state = AWAITING_CONFIRM /\ isAffirmative(userMessage)
            THEN "analyze_update"
          ELSE "none"

\* a variant of handleMessage without the guard for an empty task list
handleMessageNoGuard(found, userMessage, response, addOk, lookupOk, applyOk) ==
  LET doc == DriftGuard(found)
      turn == SwitchState(doc, userMessage, response, addOk, lookupOk, applyOk)
  IN IF turn.saved \/ ~IndexDrift(found)
       THEN turn
       ELSE [turn EXCEPT !.saved = TRUE, !.doc = doc]

\* handleMessage on the document findById returned. The result's doc is the
\* handler's document at its end, saved says whether the store holds it: the
\* drift guard saves on its own, before the switch.
handleMessage(found, userMessage, response, addOk, lookupOk, applyOk) ==
  IF found.tasks = <<>>
    THEN Returns(FALSE, found, "NoTasks", NoCalls)
    ELSE LET doc == DriftGuard(found)
             turn == SwitchState(doc, userMessage, response, addOk, lookupOk, applyOk)
         IN IF turn.saved \/ ~IndexDrift(found)
              THEN turn
              ELSE [turn EXCEPT !.saved = TRUE, !.doc = doc]

\* ------------------------------------------------------------------ state
Workers == {"w1", "w2"}

Idle == [pc |-> "idle"]

\* no gpt-usage key yet today, and no completion call
NoUsage == [used |-> 0, started |-> 0]

NotDetected == [asked |-> FALSE, message |-> <<>>, affirmative |-> FALSE, done |-> FALSE]

\* await this.redis.expire(rateLimitKey, 3600)
ExpirySeconds == 3600

NoRequest ==
  [asked |-> FALSE, userId |-> "", before |-> [count |-> 0, idle |-> 0, blocked |-> FALSE],
   requests |-> -1, limited |-> FALSE, calls |-> <<>>,
   recorded |-> "none", awaited |-> FALSE, backoffs |-> <<>>, propagated |-> FALSE,
   response |-> [success |-> FALSE, code |-> "", message |-> <<>>, content |-> <<>>]]

\* The store of the limiter with every user's key rate:<userId> at count: the
\* counter, the seconds its key has left (-1: no expiry is set, or no key),
\* the seconds since the user's last request, whether the limiter rejected
\* the user's last request, and the last request.
ServiceAt(count) ==
  [rate |-> [userId \in Users |-> count],
   ttl |-> [userId \in Users |-> IF count = 0 THEN -1 ELSE ExpirySeconds],
   idle |-> [userId \in Users |-> 0],
   blocked |-> [userId \in Users |-> FALSE],
   request |-> NoRequest]

NoCall ==
  [op |-> "none", sid |-> 0, userData |-> "", userMessage |-> <<>>, threw |-> FALSE,
   saved |-> FALSE,
   reply |-> "none", before |-> NoSession, calls |-> NoCalls]

Init ==
  /\ sessions = <<>>
  /\ jira = [t \in IssueIds |-> [comments |-> 0, status |-> InProgress]]
  /\ pendingAssigned = <<>>
  /\ finalized = <<>>
  /\ last = NoCall
  /\ workers = [w \in Workers |-> Idle]
  /\ received = 0
  /\ detected = NotDetected
  /\ usage = NoUsage
  /\ service = ServiceAt(0)

\* POST /agent/session: AgentController.startSession -> startSession(userData.id)
CreateSession(userId, recent, jiraOk) ==
  /\ IF jiraOk
       THEN LET session == AgentSessionSchema(startSession(userId, getPendingTasks(recent)))
            IN /\ sessions' = Append(sessions, session)
               /\ pendingAssigned' = Append(pendingAssigned, [k \in DOMAIN session.tasks |-> FALSE])
               /\ finalized' = Append(finalized, [k \in DOMAIN session.tasks |-> 0])
               /\ last' = [NoCall EXCEPT !.op = "startSession", !.sid = Len(sessions) + 1,
                                         !.saved = TRUE]
       ELSE /\ last' = [NoCall EXCEPT !.op = "startSession", !.threw = TRUE]
            /\ UNCHANGED <<sessions, pendingAssigned, finalized>>
  /\ UNCHANGED <<jira, workers, received, outside>>

StartSession(userId, recent, jiraOk) ==
  /\ Len(sessions) < MaxSessions
  /\ CreateSession(userId, recent, jiraOk)

\* session.save() of a document that was loaded as `loaded` and is now `doc`:
\* the paths the handler changed are written, the others keep what the store has
SaveTask(stored, loaded, task) ==
  [f \in DOMAIN task |-> IF task[f] # loaded[f] THEN task[f] ELSE stored[f]]

Save(stored, loaded, doc) ==
  LET cast == AgentSessionSchema(doc)
  IN [stored EXCEPT
        !.currentIndex = IF cast.currentIndex # loaded.currentIndex
                           THEN cast.currentIndex ELSE @,
        !.tasks = [k \in DOMAIN @ |-> SaveTask(@[k], loaded.tasks[k], cast.tasks[k])]]

\* the store, the ticket store and the history after a turn on `found`
SessionsAfter(sid, found, turn) ==
  IF turn.saved THEN [sessions EXCEPT ![sid] = Save(@, found, turn.doc)] ELSE sessions

JiraAfterTurn(found, turn) ==
  IF turn.calls.comment = "ok" \/ turn.calls.transition = "ok"
    THEN JiraAfter(CurrentTask(DriftGuard(found)).taskId,
                   turn.calls.comment = "ok", turn.calls.transition = "ok")
    ELSE jira

PendingAfter(sid, turn) ==
  IF turn.threw THEN pendingAssigned
  ELSE [pendingAssigned EXCEPT ![sid] =
          [k \in DOMAIN @ |-> @[k] \/ turn.doc.tasks[k].pendingStatusDone]]

FinalizedAfter(sid, found, turn) ==
  IF turn.reply \in {"NextTask", "AllDone"}
    THEN [finalized EXCEPT ![sid][DriftGuard(found).currentIndex + 1] = OneMore(@)]
    ELSE finalized

\* AgentController.handleMessage -> handleMessage(sessionId, message, user):
\* what one turn does to the session store and the ticket store. userData,
\* the id of the authenticated user of the request, is handed on to the
\* engine and ticket-API calls and is compared with nothing.
Handled(userData, sid, userMessage, response, addOk, lookupOk, applyOk) ==
  /\ sid \in 1..Len(sessions)
  /\ \E found \in {sessions[sid]} :
     \E turn \in {handleMessage(found, userMessage, response, addOk, lookupOk, applyOk)} :
        /\ sessions' = SessionsAfter(sid, found, turn)
        /\ jira' = JiraAfterTurn(found, turn)
        /\ pendingAssigned' = PendingAfter(sid, turn)
        /\ finalized' = FinalizedAfter(sid, found, turn)
        /\ last' = [op |-> "handleMessage", sid |-> sid, userData |-> userData,
                    userMessage |-> userMessage,
                    threw |-> turn.threw, saved |-> turn.saved, reply |-> turn.reply,
                    before |-> found, calls |-> turn.calls]

\* POST /agent/message: one whole handleMessage turn, from findById to the
\* reply, of a message the session's own user sends
HandleMessage(sid, userMessage, response, addOk, lookupOk, applyOk) ==
  /\ sid \in 1..Len(sessions)
  /\ Handled(sessions[sid].userId, sid, userMessage, response, addOk, lookupOk, applyOk)
  /\ UNCHANGED <<workers, received, outside>>

\* findById(sessionId) finds nothing: throw new Error("Session not found")
SessionNotFound(sid) ==
  /\ sid \notin 1..Len(sessions)
  /\ last' = [NoCall EXCEPT !.op = "handleMessage", !.sid = sid, !.threw = TRUE]
  /\ UNCHANGED <<sessions, jira, pendingAssigned, finalized, workers, received, outside>>

\* what the calls of a turn may answer: the engine's reply to the operation the
\* turn sends (NoResponse when it sends none), and which of addComment,
\* getTransitionId and updateTask would fail (at most one does, since the call
\* after a failed one is never made)
Replies(found, userMessage) ==
  IF OperationOf(found, userMessage) # "none"
    THEN EngineReplies(OperationOf(found, userMessage))
    ELSE {NoResponse}

Outcomes(found, userMessage) ==
  IF OperationOf(found, userMessage) = "analyze_update"
    THEN {<<TRUE, TRUE, TRUE>>, <<FALSE, TRUE, TRUE>>, <<TRUE, FALSE, TRUE>>,
          <<TRUE, TRUE, FALSE>>}
    ELSE {<<TRUE, TRUE, TRUE>>}

Turn ==
  \E sid \in 1..Len(sessions), userMessage \in Messages :
    \E response \in Replies(sessions[sid], userMessage),
       ok \in Outcomes(sessions[sid], userMessage) :
      HandleMessage(sid, userMessage, response, ok[1], ok[2], ok[3])

Next ==
  \/ \E userId \in Users, recent \in SUBSET TaskIds, jiraOk \in BOOLEAN :
       StartSession(userId, recent, jiraOk)
  \/ Turn
  \/ \E sid \in 1..(MaxSessions + 1) : SessionNotFound(sid)

Spec == Init /\ [][Next]_vars

\* ------------------------------------------- any session the store may hold
\* A session document as the schema types it: any currentIndex, each task in
\* any state. The handler guards against an index outside the task list, and
\* its advance loop skips completed tasks, whatever wrote the document: this
\* specification runs one turn of handleMessage on each such document.
StoredTask(taskId, state) ==
  TaskDoc(taskId, InProgress, state,
          IF state = AWAITING_UPDATE THEN Undefined ELSE DefaultDraft,
          IF state = COMPLETED THEN DefaultDraft ELSE Undefined, FALSE)

StoredSessions ==
  {[userId |-> "u1", currentIndex |-> index,
    tasks |-> [k \in 1..n |-> StoredTask(k, states[k])]] :
     index \in -1..MaxStoredTasks, n \in 1..MaxStoredTasks,
     states \in [1..MaxStoredTasks -> AgentTaskState]}

InitStored ==
  /\ sessions \in {<<session>> : session \in StoredSessions}
  /\ jira = [t \in IssueIds |-> [comments |-> 0, status |-> InProgress]]
  /\ pendingAssigned = <<[k \in DOMAIN sessions[1].tasks |-> FALSE]>>
  /\ finalized = <<[k \in DOMAIN sessions[1].tasks |-> 0]>>
  /\ last = NoCall
  /\ workers = [w \in Workers |-> Idle]
  /\ received = 0
  /\ detected = NotDetected
  /\ usage = NoUsage
  /\ service = ServiceAt(0)

NextStored == last.op = "none" /\ Turn

SpecStored == InitStored /\ [][NextStored]_vars

\* ------------------------------------------------ concurrent handleMessage
\* Each request runs handleMessage on its own copy of the document: findById,
\* then the awaited engine and ticket-API calls, then session.save(). Nothing
\* in the handler locks the session or checks a version, so the requests of
\* two workers interleave at every await. The upstream calls of this
\* specification all succeed, and the workers take MaxRequests requests.
GoodReplies(found, userMessage) ==
  {r \in Replies(found, userMessage) :
     OperationOf(found, userMessage) = "none" \/ (~r.error /\ ensureSuccess(r))}

\* const session = await AgentSession.findById(sessionId)
Receive(w, sid, userMessage) ==
  /\ workers[w].pc = "idle"
  /\ sid \in 1..Len(sessions)
  /\ received < MaxRequests
  /\ received' = received + 1
  /\ workers' = [workers EXCEPT ![w] =
       [pc |-> "loaded", sid |-> sid, userMessage |-> userMessage, found |-> sessions[sid]]]
  /\ UNCHANGED <<sessions, jira, pendingAssigned, finalized, last, outside>>

\* the switch up to its session.save(): the engine call and the commits
Process(w, response) ==
  /\ workers[w].pc = "loaded"
  /\ \E found \in {workers[w].found} :
     \E turn \in {handleMessage(found, workers[w].userMessage, response, TRUE, TRUE, TRUE)} :
        /\ jira' = JiraAfterTurn(found, turn)
        /\ finalized' = FinalizedAfter(workers[w].sid, found, turn)
        /\ workers' = [workers EXCEPT ![w] =
             IF turn.saved
               THEN [pc |-> "saving", sid |-> @.sid, found |-> found, doc |-> turn.doc]
               ELSE Idle]
  /\ UNCHANGED <<sessions, pendingAssigned, last, received, outside>>

\* await session.save(); return { session, reply }
SaveSession(w) ==
  /\ workers[w].pc = "saving"
  /\ sessions' = [sessions EXCEPT ![workers[w].sid] =
                    Save(@, workers[w].found, workers[w].doc)]
  /\ workers' = [workers EXCEPT ![w] = Idle]
  /\ UNCHANGED <<jira, pendingAssigned, finalized, last, received, outside>>

NextConcurrent ==
  \/ \E userId \in Users, recent \in SUBSET TaskIds :
       StartSession(userId, recent, TRUE)
  \/ \E w \in Workers, sid \in 1..MaxSessions, userMessage \in Messages :
       Receive(w, sid, userMessage)
  \/ \E w \in Workers :
       \E response \in (IF workers[w].pc = "loaded"
                          THEN GoodReplies(workers[w].found, workers[w].userMessage)
                          ELSE {}) :
         Process(w, response)
  \/ \E w \in Workers : SaveSession(w)

SpecConcurrent == Init /\ [][NextConcurrent]_vars

\* ---------------------------------------------------- reading the last turn
\* a handleMessage turn that found its session, with a task list
TurnDone == last.op = "handleMessage" /\ last.before.tasks # <<>>

Before == last.before
After == sessions[last.sid]
Index == DriftGuard(last.before).currentIndex
BeforeTask == CurrentTask(DriftGuard(last.before))
AfterTask == sessions[last.sid].tasks[Index + 1]

SaidYes == TestWords(AffirmativePhrases, last.userMessage)

\* the engine call of the turn failed: no answer, or an answer the llmService
\* wrapper refuses (draft_summary and apply_edits go through ensureSuccess)
EngineCallFailed ==
  /\ last.calls.engineOp # "none"
  /\ \/ last.calls.engine.error
     \/ /\ last.calls.engineOp \in {"draft_summary", "apply_edits"}
        /\ \/ ~last.calls.engine.success
           \/ last.calls.engine.generated_content \in {Undefined, <<>>}

\* the engine call of the turn, if any, came back with success and content
EngineSucceeded ==
  \/ last.calls.engineOp = "none"
  \/ /\ ~last.calls.engine.error /\ last.calls.engine.success
     /\ last.calls.engine.generated_content \notin {Undefined, <<>>}

TicketCallFailed == "error" \in {last.calls.comment, last.calls.lookup, last.calls.transition}

TicketMutation == last.calls.comment # "none" \/ last.calls.transition # "none"

\* -------------------------------------------------------------------- C1
\* C1: with one task and every upstream call succeeding, "completed, added
\* tracking" stores a draft; then "ok" puts the task in AWAITING_CONFIRM and
\* returns the confirm prompt; then "yes" invokes analyze_update, forces
\* comment_and_status, adds the comment, applies the transition to Done,
\* completes the task and replies that all tasks are done.
C1_Scenario ==
  (TurnDone /\ Len(Before.tasks) = 1 /\ EngineSucceeded /\ ~TicketCallFailed) =>
    /\ (BeforeTask.state = AWAITING_UPDATE /\ last.userMessage = MsgCompleted) =>
         AfterTask.draftSummary # Undefined
    /\ (BeforeTask.state = AWAITING_EDIT_DECISION /\ last.userMessage = MsgOk) =>
         (AfterTask.state = AWAITING_CONFIRM /\ last.reply = "ConfirmPrompt")
    /\ (BeforeTask.state = AWAITING_CONFIRM /\ pendingAssigned[last.sid][1]
          /\ last.userMessage = MsgYes) =>
         /\ last.calls.engineOp = "analyze_update"
         /\ last.calls.finalType = comment_and_status
         /\ last.calls.comment = "ok"
         /\ last.calls.transition = "ok"
         /\ AfterTask.state = COMPLETED
         /\ last.reply = "AllDone"

\* -------------------------------------------------------------------- C2
\* C2: a non-affirmative message in AWAITING_CONFIRM leaves the task in
\* AWAITING_CONFIRM (the whole session is as it was) and makes no addComment,
\* no transition lookup and no transition.
C2_DeclineKeepsConfirm ==
  (TurnDone /\ BeforeTask.state = AWAITING_CONFIRM /\ ~SaidYes) =>
    /\ AfterTask.state = AWAITING_CONFIRM
    /\ After = Before
    /\ ~TicketMutation
    /\ last.calls.lookup = "none"
    /\ last.reply = "WontUpdate"

C2_Witness ==
  /\ TurnDone /\ BeforeTask.state = AWAITING_CONFIRM /\ ~SaidYes
  /\ AfterTask.state = AWAITING_CONFIRM
  /\ jira[BeforeTask.taskId].comments = 0

\* -------------------------------------------------------------------- C3
\* C3: a task confirmed with pendingStatusDone set (the update message implied
\* completion) for which analyze_update yields comment_only is committed as
\* comment_and_status: the comment is added and the transition to Done invoked.
C3_Upgrade ==
  (/\ TurnDone /\ BeforeTask.state = AWAITING_CONFIRM /\ SaidYes
   /\ pendingAssigned[last.sid][Index + 1]
   /\ last.calls.updateType = comment_only
   /\ ~TicketCallFailed) =>
    /\ last.calls.finalType = comment_and_status
    /\ last.calls.comment = "ok"
    /\ last.calls.transition = "ok"

\* -------------------------------------------------------------------- C4
\* C4: a task is COMPLETED only if the turn that completed it made a ticket-API
\* commit for it that succeeded (addComment or the transition); so the ticket
\* store shows a comment or the status Done for every COMPLETED task.
C4_CompletedAfterCommit ==
  /\ \A sid \in DOMAIN sessions : \A k \in DOMAIN sessions[sid].tasks :
       sessions[sid].tasks[k].state = COMPLETED =>
         LET issue == jira[sessions[sid].tasks[k].taskId]
         IN issue.comments > 0 \/ issue.status = Done
  /\ (last.op = "startSession" /\ last.saved) =>
       \A k \in DOMAIN After.tasks : After.tasks[k].state # COMPLETED
  /\ TurnDone =>
       \A k \in DOMAIN After.tasks :
         (After.tasks[k].state = COMPLETED /\ Before.tasks[k].state # COMPLETED) =>
           /\ k = Index + 1
           /\ last.calls.comment = "ok" \/ last.calls.transition = "ok"
           /\ ~TicketCallFailed

C4_Witness ==
  /\ TurnDone /\ BeforeTask.state = AWAITING_CONFIRM /\ AfterTask.state = COMPLETED
  /\ last.calls.finalType = status_only
  /\ last.calls.comment = "none" /\ last.calls.transition = "ok"

\* -------------------------------------------------------------------- C5
\* C5: when a call of the turn fails (the engine call, or a ticket-API call),
\* the turn ends in an error and the stored session is what it was before.
C5_FailureKeepsSession ==
  (TurnDone /\ (EngineCallFailed \/ TicketCallFailed \/ last.threw)) =>
    /\ last.threw
    /\ After = Before

C5_Witness ==
  /\ TurnDone /\ last.threw /\ last.calls.comment = "ok" /\ last.calls.lookup = "error"
  /\ After = Before /\ AfterTask.state = AWAITING_CONFIRM

\* -------------------------------------------------------------------- C7
\* C7: analyzeUpdateType always yields one of the three update types, and
\* yields comment_only when the engine call fails (transport error or
\* timeout), the engine reports success=false, the content is empty, or the
\* content is none of the three values.
C7_AnalyzeDefaults ==
  (TurnDone /\ last.calls.engineOp = "analyze_update") =>
    /\ last.calls.updateType \in UpdateTypes
    /\ (\/ last.calls.engine.error
        \/ ~last.calls.engine.success
        \/ last.calls.engine.generated_content \in {Undefined, <<>>}
        \/ ToLowerCase(Trim(last.calls.engine.generated_content)) \notin UpdateTypes)
         => last.calls.updateType = comment_only

\* -------------------------------------------------------------------- C8
\* the step of the current task in the last turn
C8_CurrentStep ==
  LET from == BeforeTask.state
      to == AfterTask.state
  IN \/ from = AWAITING_UPDATE /\ to = AWAITING_UPDATE /\ last.threw
     \/ from = AWAITING_UPDATE /\ to = AWAITING_EDIT_DECISION
          /\ AfterTask.draftSummary \notin {Undefined, <<>>}
     \/ from = AWAITING_EDIT_DECISION /\ to = AWAITING_EDIT_INPUT /\ SaidYes
     \/ from = AWAITING_EDIT_DECISION /\ to = AWAITING_CONFIRM /\ ~SaidYes
     \/ from = AWAITING_EDIT_INPUT /\ to = AWAITING_EDIT_INPUT /\ last.threw
     \/ from = AWAITING_EDIT_INPUT /\ to = AWAITING_CONFIRM
          /\ AfterTask.draftSummary \notin {Undefined, <<>>}
     \/ from = AWAITING_CONFIRM /\ to = AWAITING_CONFIRM /\ (~SaidYes \/ last.threw)
     \/ from = AWAITING_CONFIRM /\ to = COMPLETED /\ SaidYes
     \/ from = COMPLETED /\ to = COMPLETED

\* C8: every task starts in AWAITING_UPDATE, and a turn changes the current
\* task's state only along AWAITING_UPDATE -> AWAITING_EDIT_DECISION (draft
\* stored), AWAITING_EDIT_DECISION -> AWAITING_EDIT_INPUT on an affirmative
\* phrase and -> AWAITING_CONFIRM on anything else, AWAITING_EDIT_INPUT ->
\* AWAITING_CONFIRM, AWAITING_CONFIRM -> COMPLETED on an affirmative phrase
\* (it stays otherwise); no other task changes state, except the task the
\* session advances to, which is reset to AWAITING_UPDATE.
C8_Transitions ==
  /\ (last.op = "startSession" /\ last.saved) =>
       \A k \in DOMAIN After.tasks : After.tasks[k].state = AWAITING_UPDATE
  /\ TurnDone =>
       /\ C8_CurrentStep
       /\ \A k \in DOMAIN After.tasks :
            (k # Index + 1 /\ After.tasks[k].state # Before.tasks[k].state) =>
              /\ k = After.currentIndex + 1
              /\ After.currentIndex # Before.currentIndex
              /\ After.tasks[k].state = AWAITING_UPDATE

C8_Witness ==
  /\ TurnDone /\ BeforeTask.state = AWAITING_EDIT_INPUT
  /\ AfterTask.state = AWAITING_CONFIRM
  /\ AfterTask.draftSummary # BeforeTask.draftSummary
  /\ Index = 1

\* -------------------------------------------------------------------- C9
\* C9: after every turn on a session with tasks, 0 <= currentIndex <
\* len(tasks) in the store; a currentIndex that was out of range is reset to 0
\* and saved before the message is processed, so the turn works on task 0.
C9_IndexInRange ==
  TurnDone =>
    /\ 0 <= After.currentIndex /\ After.currentIndex < Len(After.tasks)
    /\ IndexDrift(Before) =>
         /\ last.saved
         /\ Index = 0
         /\ After.currentIndex = 0 \/ last.reply = "NextTask"
         /\ \A k \in DOMAIN After.tasks :
              (k # 1 /\ k # After.currentIndex + 1) => After.tasks[k] = Before.tasks[k]

C9_Witness ==
  /\ TurnDone /\ Before.currentIndex = Len(Before.tasks) /\ Len(Before.tasks) > 1
  /\ After.currentIndex = 0
  /\ last.threw

\* ------------------------------------------------------------------- C10
\* the indexes after the current one whose task was not COMPLETED
LaterOpen == {j \in (Index + 1)..(Len(Before.tasks) - 1) : Before.tasks[j + 1].state # COMPLETED}

\* C10: after a successful confirmation of task i, currentIndex is the
\* smallest j > i whose task is not COMPLETED and that task is in
\* AWAITING_UPDATE; when there is none, currentIndex stays i, no other task
\* is modified and the reply says that all tasks are done.
C10_Advance ==
  (TurnDone /\ BeforeTask.state = AWAITING_CONFIRM /\ AfterTask.state = COMPLETED) =>
    IF LaterOpen # {}
      THEN /\ After.currentIndex \in LaterOpen
           /\ \A j \in LaterOpen : After.currentIndex <= j
           /\ After.tasks[After.currentIndex + 1] =
                [Before.tasks[After.currentIndex + 1] EXCEPT !.state = AWAITING_UPDATE]
           /\ \A k \in DOMAIN After.tasks :
                (k # Index + 1 /\ k # After.currentIndex + 1) =>
                  After.tasks[k] = Before.tasks[k]
           /\ last.reply = "NextTask"
      ELSE /\ After.currentIndex = Index
           /\ \A k \in DOMAIN After.tasks : k # Index + 1 => After.tasks[k] = Before.tasks[k]
           /\ last.reply = "AllDone"

C10_Witness ==
  /\ TurnDone /\ BeforeTask.state = AWAITING_CONFIRM /\ AfterTask.state = COMPLETED
  /\ Index = 0 /\ After.currentIndex = 2
  /\ Before.tasks[3].state = AWAITING_EDIT_INPUT
  /\ After.tasks[3].state = AWAITING_UPDATE

\* -------------------------------------------------------------------- C6
\* C6: two handleMessage calls running concurrently on one session behave as
\* some serial execution of the two messages; in a serial execution a task is
\* finalized (committed to the ticket API and completed) by at most one turn,
\* so two concurrent confirmations of the same task do not both commit.
C6_OneCommitPerTask ==
  \A sid \in DOMAIN finalized : \A k \in DOMAIN finalized[sid] : finalized[sid][k] <= 1

EmptyTurn ==
  last.op = "handleMessage" /\ last.before # NoSession /\ last.before.tasks = <<>>

\* C12: handleMessage on a session with an empty task list returns the
\* explanatory reply and changes nothing: no save, no engine call, no
\* ticket-API call.
C12_EmptyTaskList ==
  EmptyTurn =>
    /\ last.reply = "NoTasks"
    /\ ~last.threw /\ ~last.saved
    /\ sessions[last.sid] = last.before
    /\ last.calls = NoCalls

C12_Witness ==
  /\ EmptyTurn /\ last.reply = "NoTasks" /\ last.userMessage = MsgYes
  /\ sessions[last.sid].tasks = <<>>

\* ------------------------------------------------ the two detectors alone
\* The messages put to the detectors: every phrase of the two lists in lower
\* case, in upper case and capitalized, alone and with something before or
\* after it, and a few messages with no phrase at all.
UpperOfLower ==
  [c \in Range(LowerCase) |-> UpperCase[CHOOSE i \in DOMAIN LowerCase : LowerCase[i] = c]]

ToUpperCase(s) ==
  [i \in DOMAIN s |-> IF s[i] \in DOMAIN UpperOfLower THEN UpperOfLower[s[i]] ELSE s[i]]

Capitalize(s) == IF s = <<>> THEN s ELSE ToUpperCase(SubSeq(s, 1, 1)) \o Tail(s)

Casings(p) == {p, ToUpperCase(p), Capitalize(p)}

Around(c) ==
  {c, <<"x">> \o c, c \o <<"1">>, <<"_">> \o c, <<",", " ">> \o c \o <<".">>,
   c \o <<"-", "i", "s", "h">>}

DetectMessages ==
  UNION {Around(c) : c \in UNION {Casings(p) : p \in AffirmativePhrases \cup DonePhrases}}
    \cup {<<>>, MsgNo, MsgCompleted, <<"m", "a", "y", "b", "e">>}

\* isAffirmative(message) and saidDone(message), as handleMessage defines them
Detect(message) ==
  /\ detected' = [asked |-> TRUE, message |-> message,
                  affirmative |-> isAffirmative(message), done |-> saidDone(message)]
  /\ UNCHANGED <<sessions, jira, pendingAssigned, finalized, last, workers, received,
                 service, usage>>

NextDetect == \E message \in DetectMessages : Detect(message)

SpecDetect == Init /\ [][NextDetect]_vars

\* ------------------------------------------------------------------- C13
\* the same letters, whatever their case
SameLetters(a, b) ==
  /\ Len(a) = Len(b)
  /\ \A i \in DOMAIN a :
       \/ a[i] = b[i]
       \/ \E j \in DOMAIN UpperCase :
            {a[i], b[i]} = {UpperCase[j], LowerCase[j]}

ConsistsOf(phrases, s) == \E p \in phrases : SameLetters(s, p)

\* position k of s is an end of the message or holds no letter, digit or underscore
Delimiter(s, k) == k \notin DOMAIN s \/ s[k] \notin WordChars

\* s holds a phrase as a whole word: in any letter case, with a delimiter on
\* both sides
ContainsWord(phrases, s) ==
  \E p \in phrases : \E k \in DOMAIN s :
    /\ k + Len(p) - 1 <= Len(s)
    /\ SameLetters(SubSeq(s, k, k + Len(p) - 1), p)
    /\ Delimiter(s, k - 1)
    /\ Delimiter(s, k + Len(p))

\* C13: isAffirmative accepts every message that consists of one of its ten
\* phrases and saidDone every message that consists of one of its six, in any
\* letter case; each rejects a message that holds none of its phrases as a
\* whole word.
C13_Detection ==
  detected.asked =>
    /\ ConsistsOf(AffirmativePhrases, detected.message) => detected.affirmative
    /\ ConsistsOf(DonePhrases, detected.message) => detected.done
    /\ ~ContainsWord(AffirmativePhrases, detected.message) => ~detected.affirmative
    /\ ~ContainsWord(DonePhrases, detected.message) => ~detected.done

C13_Witness ==
  /\ detected.asked
  /\ detected.message = <<"G", "O", " ", "A", "H", "E", "A", "D">>
  /\ detected.affirmative /\ ~detected.done

\* ------------------------------------------------------------------- C14
\* C14: every failure inside a handleMessage turn (unknown sessionId, empty
\* task list, failed engine call, failed ticket-API call) ends in a reply to
\* the user: handleMessage returns, it does not throw.
C14_ConversationalFailures ==
  last.op = "handleMessage" => (~last.threw /\ last.reply # "none")

\* ------------------------------------------------------------------- C15
\* C15: what a turn assigns to a task is what the next turn loads; so once a
\* turn that was saved has assigned pendingStatusDone = true to a task, the
\* stored task has pendingStatusDone = true.
C15_PendingStatusDoneStored ==
  \A sid \in DOMAIN sessions : \A k \in DOMAIN sessions[sid].tasks :
    pendingAssigned[sid][k] => sessions[sid].tasks[k].pendingStatusDone

\* ------------------------------------------------ startSession, repeatedly
\* Sessions are created one after the other, up to MaxUserSessions of them,
\* and no message is sent in between.
NextSessions ==
  \E userId \in Users, recent \in SUBSET TaskIds, jiraOk \in BOOLEAN :
    /\ Len(sessions) < MaxUserSessions
    /\ CreateSession(userId, recent, jiraOk)

SpecSessions == Init /\ [][NextSessions]_vars

\* ------------------------------------------------------------------- C16
\* a session with a task that is not COMPLETED
ActiveSessions(userId) ==
  {sid \in DOMAIN sessions :
     /\ sessions[sid].userId = userId
     /\ \E k \in DOMAIN sessions[sid].tasks : sessions[sid].tasks[k].state # COMPLETED}

\* C16: after any sequence of startSession calls, each user has at most one
\* active session.
C16_OneActiveSession ==
  \A userId \in Users : Cardinality(ActiveSessions(userId)) <= 1

\* ------------------------------------------------------------ the AIService
\* private retryAttempts = 3
retryAttempts == 3

\* if (requests > 100)
RateLimit == 100

\* An error as the service reads it: error.response.status (0 when there is
\* no response), error.code and error.message.
ErrorOf(status, code, message) == [status |-> status, code |-> code, message |-> message]

RateLimitError == ErrorOf(0, "", <<"R", "a", "t", "e", " ", "l", "i", "m", "i", "t", " ", "e", "x", "c", "e", "e", "d", "e", "d">>)
RedisError == ErrorOf(0, "", <<"C", "o", "n", "n", "e", "c", "t", "i", "o", "n", " ", "i", "s", " ", "c", "l", "o", "s", "e", "d", ".">>)
BadRequest == ErrorOf(400, "ERR_BAD_REQUEST", <<"R", "e", "q", "u", "e", "s", "t", " ", "f", "a", "i", "l", "e", "d", " ", "w", "i", "t", "h", " ", "s", "t", "a", "t", "u", "s", " ", "c", "o", "d", "e", " ", "4", "0", "0">>)
Unauthorized == ErrorOf(401, "ERR_BAD_REQUEST", <<"R", "e", "q", "u", "e", "s", "t", " ", "f", "a", "i", "l", "e", "d", " ", "w", "i", "t", "h", " ", "s", "t", "a", "t", "u", "s", " ", "c", "o", "d", "e", " ", "4", "0", "1">>)
NotFound == ErrorOf(404, "ERR_BAD_REQUEST", <<"R", "e", "q", "u", "e", "s", "t", " ", "f", "a", "i", "l", "e", "d", " ", "w", "i", "t", "h", " ", "s", "t", "a", "t", "u", "s", " ", "c", "o", "d", "e", " ", "4", "0", "4">>)
RateLimited == ErrorOf(429, "ERR_BAD_REQUEST", <<"R", "e", "q", "u", "e", "s", "t", " ", "f", "a", "i", "l", "e", "d", " ", "w", "i", "t", "h", " ", "s", "t", "a", "t", "u", "s", " ", "c", "o", "d", "e", " ", "4", "2", "9">>)
ServiceUnavailable == ErrorOf(503, "ERR_BAD_RESPONSE", <<"R", "e", "q", "u", "e", "s", "t", " ", "f", "a", "i", "l", "e", "d", " ", "w", "i", "t", "h", " ", "s", "t", "a", "t", "u", "s", " ", "c", "o", "d", "e", " ", "5", "0", "3">>)
TransportTimeout == ErrorOf(0, "ECONNABORTED", <<"t", "i", "m", "e", "o", "u", "t", " ", "o", "f", " ", "1", "5", "0", "0", "0", "m", "s", " ", "e", "x", "c", "e", "e", "d", "e", "d">>)
NoError == ErrorOf(0, "", <<>>)

\* What one call of aiEngineClient.processMessage does: it resolves with an
\* AIEngineProcessResponse, or rejects with the axios error.
Resolves(success, error, error_message, content) ==
  [rejected |-> FALSE, success |-> success, error |-> error,
   error_message |-> error_message, generated_content |-> content, thrown |-> NoError]

Rejects(error) ==
  [rejected |-> TRUE, success |-> FALSE, error |-> "",
   error_message |-> <<>>, generated_content |-> <<>>, thrown |-> error]

EngineOk == Resolves(TRUE, "", <<>>, <<"o", "k">>)
EngineReportsError == Resolves(FALSE, "ENGINE_ERROR", <<"D", "o", "w", "n", "s", "t", "r", "e", "a", "m", " ", "f", "a", "i", "l", "u", "r", "e">>, <<>>)
EngineReportsNothing == Resolves(FALSE, "", <<>>, <<>>)

RetryableFailures == {Rejects(RateLimited), Rejects(ServiceUnavailable), Rejects(TransportTimeout)}
FatalFailures == {Rejects(BadRequest), Rejects(Unauthorized), Rejects(NotFound)}
EngineOutcomes ==
  {EngineOk, EngineReportsError, EngineReportsNothing} \cup RetryableFailures \cup FatalFailures

\* String.prototype.includes
Includes(s, part) ==
  \E k \in 1..(Len(s) + 1) :
    k + Len(part) - 1 <= Len(s) /\ SubSeq(s, k, k + Len(part) - 1) = part

\* a variant that takes every failure as retryable
isRetryableAny(error) == TRUE

isRetryable(error) ==
  IF error.status = 0 /\ error.code = "ECONNABORTED"
    THEN TRUE
    ELSE error.status \in {408, 425, 429, 500, 502, 503, 504}

getErrorCode(error) ==
  IF Includes(error.message, <<"R", "a", "t", "e", " ", "l", "i", "m", "i", "t">>) THEN "RATE_LIMIT_EXCEEDED"
  ELSE IF Includes(error.message, <<"c", "o", "s", "t", " ", "l", "i", "m", "i", "t">>) THEN "COST_LIMIT_EXCEEDED"
  ELSE IF error.status = 401 THEN "UNAUTHORIZED"
  ELSE IF error.status = 404 THEN "NOT_FOUND"
  ELSE "INTERNAL_ERROR"

\* getErrorCode on the errors of the model, computed once
KnownErrors ==
  {RateLimitError, RedisError, BadRequest, Unauthorized, NotFound, RateLimited,
   ServiceUnavailable, TransportTimeout, NoError}

ErrorCodes == [error \in KnownErrors |-> getErrorCode(error)]

ErrorCodeOf(error) ==
  IF error \in KnownErrors THEN ErrorCodes[error] ELSE getErrorCode(error)

\* An AIResponse: success with data (the content), or success = false with
\* error.code and error.message
AIResponseOf(success, code, message, content) ==
  [success |-> success, code |-> code, message |-> message, content |-> content]

mapSuccess(response) == AIResponseOf(TRUE, "", <<>>, response.generated_content)

\* a variant that reports every engine error as ENGINE_ERROR with the default text
EngineErrorDefaults(response) ==
  AIResponseOf(FALSE, "ENGINE_ERROR", <<"A", "I", " ", "e", "n", "g", "i", "n", "e", " ", "r", "e", "t", "u", "r", "n", "e", "d", " ", "a", "n", " ", "e", "r", "r", "o", "r">>, <<>>)

\* return { success: false, error: { code: engineResponse.error || ..., ... } }
EngineError(response) ==
  AIResponseOf(FALSE,
               IF response.error # "" THEN response.error ELSE "ENGINE_ERROR",
               IF response.error_message # <<>> THEN response.error_message
                 ELSE <<"A", "I", " ", "e", "n", "g", "i", "n", "e", " ", "r", "e", "t", "u", "r", "n", "e", "d", " ", "a", "n", " ", "e", "r", "r", "o", "r">>,
               <<>>)

\* What processMessage ends with: the response it returns, or the error it
\* lets through (propagated)
Returned(response) == [propagated |-> FALSE, response |-> response]

\* a variant of the outer catch that handles the rate-limit error only
CaughtRateLimitOnly(error) ==
  IF error = RateLimitError
    THEN Returned(AIResponseOf(FALSE, "RATE_LIMIT_EXCEEDED", error.message, <<>>))
    ELSE [propagated |-> TRUE, response |-> AIResponseOf(FALSE, "", <<>>, <<>>)]

\* the outer catch
Caught(error) ==
  Returned(AIResponseOf(FALSE, ErrorCodeOf(error),
                        IF error.message # <<>> THEN error.message
                          ELSE <<"F", "a", "i", "l", "e", "d", " ", "t", "o", " ", "p", "r", "o", "c", "e", "s", "s", " ", "A", "I", " ", "r", "e", "q", "u", "e", "s", "t">>,
                        <<>>))

\* a variant of the limiter that rejects the request that reaches the limit
enforceRateLimitsInclusive(userId, count, redis) ==
  IF userId = "" THEN [count |-> count, requests |-> -1, thrown |-> NoError]
  ELSE IF redis = "incr" THEN [count |-> count, requests |-> -1, thrown |-> RedisError]
  ELSE IF redis = "expire" THEN [count |-> count + 1, requests |-> -1, thrown |-> RedisError]
  ELSE [count |-> count + 1, requests |-> count + 1,
        thrown |-> IF count + 1 >= RateLimit THEN RateLimitError ELSE NoError]

\* enforceRateLimits on the counter of the user's key. redis names the call
\* that rejects ("incr", "expire") or is "ok"; requests is the value the
\* limiter compares with the limit, -1 when it does not get that far.
enforceRateLimits(userId, count, redis) ==
  IF userId = "" THEN [count |-> count, requests |-> -1, thrown |-> NoError]
  ELSE IF redis = "incr" THEN [count |-> count, requests |-> -1, thrown |-> RedisError]
  ELSE IF redis = "expire" THEN [count |-> count + 1, requests |-> -1, thrown |-> RedisError]
  ELSE [count |-> count + 1, requests |-> count + 1,
        thrown |-> IF count + 1 > RateLimit THEN RateLimitError ELSE NoError]

\* const backoff = 1000 * (attempt + 1), the milliseconds slept after the
\* retryable failure of attempt
backoff(attempt) == 1000 * (attempt + 1)

\* await this.recordMetrics(...): the loop goes on when the write has settled
recordMetrics(metricsOk) ==
  [recorded |-> IF metricsOk THEN "ok" ELSE "failed", awaited |-> TRUE]

\* a variant of the expiry that is set only when the key is new, so that the
\* window starts with the first request
expireIfNew(userId, ttl, redis) ==
  IF userId = "" \/ redis # "ok" THEN ttl
  ELSE IF ttl = -1 THEN ExpirySeconds ELSE ttl

\* await this.redis.expire(rateLimitKey, 3600): the seconds the key has left
\* after enforceRateLimits. Without a userId, or when incr or expire rejects,
\* the expiry is as it was.
expire(userId, ttl, redis) ==
  IF userId = "" \/ redis # "ok" THEN ttl ELSE ExpirySeconds

\* The attempt loop on run, the outcomes the engine calls would have, from
\* attempt on: the number of calls made, the delays slept and how the loop
\* ends. The metrics write of the answered call succeeds or not;
\* recordMetrics catches its error.
RECURSIVE Attempts(_, _, _)
Attempts(run, attempt, metricsOk) ==
  IF ~(attempt < retryAttempts)
    THEN [calls |-> attempt, recorded |-> "none", awaited |-> FALSE, backoffs |-> <<>>,
          end |-> Caught(run[attempt].thrown)]
  ELSE LET engineResponse == run[attempt + 1]
       IN IF ~engineResponse.rejected
            THEN [calls |-> attempt + 1,
                  recorded |-> recordMetrics(metricsOk).recorded,
                  awaited |-> recordMetrics(metricsOk).awaited,
                  backoffs |-> <<>>,
                  end |-> Returned(IF engineResponse.success
                                     THEN mapSuccess(engineResponse)
                                     ELSE EngineError(engineResponse))]
          ELSE IF ~isRetryable(engineResponse.thrown)
            THEN [calls |-> attempt + 1, recorded |-> "none", awaited |-> FALSE,
                  backoffs |-> <<>>, end |-> Caught(engineResponse.thrown)]
          ELSE LET rest == Attempts(run, attempt + 1, metricsOk)
               IN [rest EXCEPT !.backoffs = <<backoff(attempt)>> \o @]

\* AIService.processMessage for a request of userId ("" when the request has
\* no context.userId)
processMessage(userId, count, redis, run, metricsOk) ==
  LET limit == enforceRateLimits(userId, count, redis)
      loop == Attempts(run, 0, metricsOk)
  IN IF limit.thrown # NoError
       THEN [count |-> limit.count, requests |-> limit.requests,
             limited |-> limit.thrown = RateLimitError,
             calls |-> 0, recorded |-> "none", awaited |-> FALSE, backoffs |-> <<>>,
             end |-> Caught(limit.thrown)]
       ELSE [count |-> limit.count, requests |-> limit.requests, limited |-> FALSE,
             calls |-> loop.calls, recorded |-> loop.recorded, awaited |-> loop.awaited,
             backoffs |-> loop.backoffs, end |-> loop.end]

\* The outcomes of the engine calls of one request, attempt by attempt. A
\* call is made only after a retryable failure, so the outcomes after another
\* outcome are never asked for and are fixed to EngineOk.
EngineRuns ==
  {run \in [1..retryAttempts -> EngineOutcomes] :
     \A i \in 2..retryAttempts : run[i - 1] \notin RetryableFailures => run[i] = EngineOk}

\* One AIService.processMessage request, from enforceRateLimits to the response
ProcessMessage(userId, redis, run, metricsOk) ==
  /\ userId # "" => service.rate[userId] < MaxCounter
  /\ \E count \in {IF userId = "" THEN 0 ELSE service.rate[userId]} :
     \E done \in {processMessage(userId, count, redis, run, metricsOk)} :
       service' =
         [rate |-> IF userId = "" THEN service.rate
                     ELSE [service.rate EXCEPT ![userId] = done.count],
          ttl |-> IF userId = "" THEN service.ttl
                    ELSE [service.ttl EXCEPT ![userId] = expire(userId, @, redis)],
          idle |-> IF userId = "" THEN service.idle
                     ELSE [service.idle EXCEPT ![userId] = 0],
          blocked |-> IF userId = "" \/ done.requests = -1 THEN service.blocked
                        ELSE [service.blocked EXCEPT ![userId] = done.limited],
          request |-> [asked |-> TRUE, userId |-> userId,
                       before |-> IF userId = "" THEN NoRequest.before
                                    ELSE [count |-> count, idle |-> service.idle[userId],
                                          blocked |-> service.blocked[userId]],
                       requests |-> done.requests,
                       limited |-> done.limited, calls |-> SubSeq(run, 1, done.calls),
                       recorded |-> done.recorded, awaited |-> done.awaited,
                       backoffs |-> done.backoffs, propagated |-> done.end.propagated,
                       response |-> done.end.response]]
  /\ UNCHANGED <<sessions, jira, pendingAssigned, finalized, last, workers, received,
                 detected, usage>>

\* When a call of the limiter rejects, no engine call is made, whatever the
\* engine would answer.
NextService ==
  \E userId \in Users \cup {""}, redis \in {"ok", "incr", "expire"} :
    \E run \in (IF redis = "ok" \/ userId = "" THEN EngineRuns
                  ELSE {[i \in 1..retryAttempts |-> EngineOk]}),
       metricsOk \in BOOLEAN :
      ProcessMessage(userId, redis, run, metricsOk)

\* The counter of each user starts at StartCounter, a few requests below the
\* limit, and the key does not expire before MaxCounter is reached.
InitService ==
  /\ sessions = <<>>
  /\ jira = [t \in IssueIds |-> [comments |-> 0, status |-> InProgress]]
  /\ pendingAssigned = <<>>
  /\ finalized = <<>>
  /\ last = NoCall
  /\ workers = [w \in Workers |-> Idle]
  /\ received = 0
  /\ detected = NotDetected
  /\ usage = NoUsage
  /\ service = ServiceAt(StartCounter)

SpecService == InitService /\ [][NextService]_vars

\* ---------------------------------------------- reading the last request
Request == service.request

\* the limiter of the last request got to compare the counter with the limit
LimiterDecided == Request.asked /\ Request.userId # "" /\ Request.requests # -1

\* the call of the last request that the engine answered with success = false
EngineRefusals ==
  {i \in DOMAIN Request.calls : ~Request.calls[i].rejected /\ ~Request.calls[i].success}

\* ------------------------------------------------------------------- C17
\* C17: a request with a userId whose counter, once incremented, is above 100
\* gets success = false with the code RATE_LIMIT_EXCEEDED and no engine call;
\* a request whose incremented counter is at most 100 is not rejected by the
\* limiter, and the engine is called.
C17_RateLimit ==
  LimiterDecided =>
    /\ Request.requests > RateLimit =>
         /\ Request.limited
         /\ ~Request.response.success
         /\ Request.response.code = "RATE_LIMIT_EXCEEDED"
         /\ Request.calls = <<>>
    /\ Request.requests <= RateLimit =>
         /\ ~Request.limited
         /\ Request.response.code # "RATE_LIMIT_EXCEEDED"
         /\ Request.calls # <<>>

C17_Witness ==
  /\ LimiterDecided /\ Request.requests = RateLimit + 1
  /\ Request.response.code = "RATE_LIMIT_EXCEEDED" /\ Request.calls = <<>>

\* ------------------------------------------------------------------- C18
\* C18: processMessage lets no failure through: whatever the limiter, the
\* engine calls and the metrics write do, it returns a response that is
\* success = true with data, or success = false with a code and a message
\* that are not empty.
C18_Structured ==
  Request.asked =>
    /\ ~Request.propagated
    /\ Request.response.success =>
         (Request.response.code = "" /\ Request.calls # <<>>)
    /\ ~Request.response.success =>
         (Request.response.code # "" /\ Request.response.message # <<>>)

C18_Witness ==
  /\ Request.asked /\ ~Request.propagated
  /\ Len(Request.calls) = retryAttempts
  /\ Request.calls[retryAttempts] = Rejects(ServiceUnavailable)
  /\ Request.response.code = "INTERNAL_ERROR"

\* ------------------------------------------------------------------- C19
\* C19, as stated: when the engine answers with success = false, the response
\* is success = false with the engine's error as code (ENGINE_ERROR when it
\* gives none) and the engine's error_message, after exactly one engine call.
C19_ExactlyOneCall ==
  EngineRefusals # {} =>
    /\ ~Request.response.success
    /\ Request.response.code \in {Request.calls[i].error : i \in EngineRefusals} \cup {"ENGINE_ERROR"}
    /\ Len(Request.calls) = 1

\* C19, amended: when the engine answers with success = false, the response
\* is success = false with the engine's error as code (ENGINE_ERROR when it
\* gives none) and the engine's error_message (a default text when it gives
\* none); that call is the last one of the request, and the calls before it,
\* at most two, all failed with a retryable error.
C19_EngineError ==
  \A i \in EngineRefusals :
    /\ i = Len(Request.calls)
    /\ ~Request.response.success
    /\ Request.response.code =
         (IF Request.calls[i].error # "" THEN Request.calls[i].error ELSE "ENGINE_ERROR")
    /\ Request.calls[i].error_message # <<>> =>
         Request.response.message = Request.calls[i].error_message
    /\ Request.response.message # <<>>
    /\ Len(Request.calls) <= retryAttempts
    /\ \A j \in 1..(i - 1) : Request.calls[j] \in RetryableFailures

C19_Witness ==
  /\ Request.asked
  /\ Request.calls = <<Rejects(ServiceUnavailable), EngineReportsError>>
  /\ Request.response.code = "ENGINE_ERROR"
  /\ Request.response.message = EngineReportsError.error_message

C22_FireAndForget ==
  Request.recorded # "none" =>
    /\ ~Request.propagated
    /\ Request.response =
         (LET engineResponse == Request.calls[Len(Request.calls)]
          IN IF engineResponse.success THEN mapSuccess(engineResponse)
             ELSE EngineError(engineResponse))
    /\ ~Request.awaited


\* ------------------------------------------------------------------- C23
\* C23: in a confirmation that got its update type, the ticket-API calls are
\* those of the final update type: comment_only makes the addComment call and
\* asks for no transition; status_only makes no addComment call and asks for
\* the transition to Done (the lookup, then the apply); comment_and_status
\* makes the addComment call and, once it has succeeded, asks for the
\* transition. A call is left out only when the call before it failed, and
\* the ticket store holds the comment and the status Done of the calls that
\* succeeded.
C23_CommitMatchesType ==
  (TurnDone /\ last.calls.finalType # Undefined) =>
    /\ last.calls.finalType \in UpdateTypes
    /\ last.calls.finalType = comment_only =>
         /\ last.calls.comment # "none"
         /\ last.calls.lookup = "none" /\ last.calls.transition = "none"
    /\ last.calls.finalType = status_only =>
         /\ last.calls.comment = "none"
         /\ last.calls.lookup # "none"
    /\ last.calls.finalType = comment_and_status =>
         /\ last.calls.comment # "none"
         /\ (last.calls.lookup # "none") = (last.calls.comment = "ok")
    /\ (last.calls.transition # "none") = (last.calls.lookup = "ok")
    /\ last.calls.comment # "none" => last.calls.commentText = BeforeTask.draftSummary
    /\ last.calls.comment = "ok" => jira[BeforeTask.taskId].comments >= 1
    /\ last.calls.transition = "ok" => jira[BeforeTask.taskId].status = Done
    /\ ~last.threw =>
         /\ "error" \notin {last.calls.comment, last.calls.lookup, last.calls.transition}
         /\ last.reply \in {"NextTask", "AllDone"}

C23_Witness ==
  /\ TurnDone /\ ~last.threw
  /\ last.calls.updateType = comment_and_status
  /\ last.calls.finalType = comment_and_status
  /\ last.calls.comment = "ok" /\ last.calls.lookup = "ok" /\ last.calls.transition = "ok"
  /\ jira[BeforeTask.taskId] = [comments |-> 1, status |-> Done]


\* ------------------------------------------------------------------- C24
\* C24: in every stored session, a task has a finalSummary exactly when it is
\* COMPLETED, and the finalSummary of a COMPLETED task is its draftSummary; the
\* text of a comment that a turn committed for a task is the task's
\* draftSummary, which is the finalSummary once the task is COMPLETED.
C24_FinalSummary ==
  /\ \A sid \in DOMAIN sessions : \A k \in DOMAIN sessions[sid].tasks :
       /\ (sessions[sid].tasks[k].finalSummary # Undefined)
            = (sessions[sid].tasks[k].state = COMPLETED)
       /\ sessions[sid].tasks[k].state = COMPLETED =>
            sessions[sid].tasks[k].finalSummary = sessions[sid].tasks[k].draftSummary
  /\ (TurnDone /\ last.calls.comment = "ok") =>
       /\ last.calls.commentText = AfterTask.draftSummary
       /\ AfterTask.state = COMPLETED => last.calls.commentText = AfterTask.finalSummary


\* ------------------------------------------------------------------- C25
\* C25: in every stored session, every task below currentIndex is COMPLETED,
\* every task above currentIndex is in AWAITING_UPDATE and has no
\* draftSummary, and so only the task at currentIndex can be in
\* AWAITING_EDIT_DECISION, AWAITING_EDIT_INPUT or AWAITING_CONFIRM.
C25_OneTaskInProgress ==
  \A sid \in DOMAIN sessions : \A k \in DOMAIN sessions[sid].tasks :
    /\ k - 1 < sessions[sid].currentIndex => sessions[sid].tasks[k].state = COMPLETED
    /\ k - 1 > sessions[sid].currentIndex =>
         /\ sessions[sid].tasks[k].state = AWAITING_UPDATE
         /\ sessions[sid].tasks[k].draftSummary = Undefined
    /\ sessions[sid].tasks[k].state
         \in {AWAITING_EDIT_DECISION, AWAITING_EDIT_INPUT, AWAITING_CONFIRM} =>
           k - 1 = sessions[sid].currentIndex


\* ------------------------------------------------- a user who follows the script
\* A session of one to MaxTasks tasks whose user answers each task with an
\* update, then a message that is not affirmative, then an affirmative one,
\* and goes on with MaxLater messages of any kind; every upstream call
\* succeeds. received counts the messages the session has got.
MaxLater == 2

ScriptLength == IF sessions = <<>> THEN 0 ELSE 3 * Len(sessions[1].tasks)

ScriptMessages ==
  IF received >= ScriptLength THEN Messages
  ELSE IF received % 3 = 0 THEN Messages
  ELSE IF received % 3 = 1 THEN Messages \ AffirmativeMessages
  ELSE AffirmativeMessages

ScriptStart ==
  /\ sessions = <<>>
  /\ \E recent \in SUBSET TaskIds : recent # {} /\ StartSession("u1", recent, TRUE)

ScriptMessage ==
  /\ sessions # <<>>
  /\ received < ScriptLength + MaxLater
  /\ \E userMessage \in ScriptMessages :
     \E response \in GoodReplies(sessions[1], userMessage) :
       Handled("u1", 1, userMessage, response, TRUE, TRUE, TRUE)
  /\ received' = received + 1
  /\ UNCHANGED <<workers, outside>>

NextScript == ScriptStart \/ ScriptMessage

SpecScript == Init /\ [][NextScript]_vars

\* ------------------------------------------------------------------- C26
\* C26: when the user follows the script and every upstream call succeeds, no
\* turn fails, the tasks are completed in index order, task k with message
\* 3k, so that all n tasks are COMPLETED after exactly 3n messages; every
\* later message gets the all-tasks-complete reply, saves nothing and makes no
\* call, and no task is committed twice.
C26_ScriptCompletes ==
  sessions # <<>> =>
    /\ last.op = "handleMessage" => ~last.threw
    /\ \A k \in DOMAIN sessions[1].tasks :
         /\ (sessions[1].tasks[k].state = COMPLETED) = (3 * k <= received)
         /\ finalized[1][k] = (IF 3 * k <= received THEN 1 ELSE 0)
         /\ jira[sessions[1].tasks[k].taskId].comments <= 1
    /\ received > ScriptLength =>
         /\ last.reply = "AllComplete"
         /\ last.calls = NoCalls
         /\ ~last.saved

C26_Witness ==
  /\ sessions # <<>>
  /\ Len(sessions[1].tasks) = 2
  /\ received = 3 * 2 + 1
  /\ \A k \in 1..2 : sessions[1].tasks[k].state = COMPLETED
  /\ last.reply = "AllComplete"


\* ------------------------------------------------------------------- C27
\* C27: over the turns of a session, a confirmation that is sent again after
\* a turn that failed part-way included, the ticket store gets the comment of
\* each task at most once.
C27_CommentAtMostOnce ==
  \A sid \in DOMAIN sessions : \A k \in DOMAIN sessions[sid].tasks :
    jira[sessions[sid].tasks[k].taskId].comments <= 1


\* ---------------------------------------------- messages of any authenticated user
\* The users the auth middleware may put in req.body.user: the owner of the
\* sessions and one more. The request names any stored session.
Senders == Users \cup {"u2"}

MessageFrom(userData, sid, userMessage) ==
  /\ sid \in 1..Len(sessions)
  /\ \E response \in GoodReplies(sessions[sid], userMessage) :
       Handled(userData, sid, userMessage, response, TRUE, TRUE, TRUE)
  /\ UNCHANGED <<workers, received, outside>>

NextOwners ==
  \/ \E userId \in Users, recent \in SUBSET TaskIds : StartSession(userId, recent, TRUE)
  \/ \E userData \in Senders, sid \in 1..MaxSessions, userMessage \in Messages :
       MessageFrom(userData, sid, userMessage)

SpecOwners == Init /\ [][NextOwners]_vars

\* ------------------------------------------------------------------- C28
\* C28: a message whose authenticated user is not the user of the session it
\* names leaves the stored session as it was and makes no ticket-API call.
C28_OwnerOnly ==
  (TurnDone /\ last.userData # last.before.userId) =>
    /\ sessions[last.sid] = last.before
    /\ ~last.saved
    /\ last.calls.comment = "none"
    /\ last.calls.lookup = "none"
    /\ last.calls.transition = "none"


\* ------------------------------------------------ the limiter's key over time
\* Time passes in steps of Quantum seconds. A key whose expiry runs out is
\* deleted, and the next incr starts again from 1. The store answers every
\* call and the engine answers every request; requests come with the userId
\* of a user or without one.
Quantum == 1200

Elapse(seconds) ==
  [service EXCEPT
     !.idle = [userId \in Users |->
                 IF @[userId] + seconds >= ExpirySeconds THEN ExpirySeconds
                 ELSE @[userId] + seconds],
     !.ttl = [userId \in Users |->
                IF @[userId] = -1 \/ @[userId] - seconds <= 0 THEN -1
                ELSE @[userId] - seconds],
     !.rate = [userId \in Users |->
                 IF service.ttl[userId] # -1 /\ service.ttl[userId] - seconds <= 0
                   THEN 0 ELSE @[userId]]]

Tick ==
  /\ service' = Elapse(Quantum)
  /\ UNCHANGED <<sessions, jira, pendingAssigned, finalized, last, workers, received,
                 detected, usage>>

NextLimiter ==
  \/ \E userId \in Users \cup {""} :
       ProcessMessage(userId, "ok", [i \in 1..retryAttempts |-> EngineOk], TRUE)
  \/ Tick

SpecLimiter == InitService /\ [][NextLimiter]_vars

\* ------------------------------------------------------------------- C29
\* C29: every request with a userId is counted, a rejected one too: its count
\* is the counter before it plus one, it is rejected exactly when that count
\* is above 100, and right after it the key holds that count and has 3600
\* seconds left. Hence a request of a user whose last request was rejected is
\* admitted only when the user has sent no request for 3600 seconds, and it
\* is then the first of a new count.
C29_CountsAndRestarts ==
  (Request.asked /\ Request.userId # "") =>
    /\ Request.requests = Request.before.count + 1
    /\ Request.limited = (Request.requests > RateLimit)
    /\ service.idle[Request.userId] = 0 =>
         /\ service.rate[Request.userId] = Request.requests
         /\ service.ttl[Request.userId] = ExpirySeconds
    /\ (Request.before.blocked /\ ~Request.limited) =>
         /\ Request.before.idle >= ExpirySeconds
         /\ Request.requests = 1

C29_Witness ==
  /\ Request.asked /\ Request.userId # ""
  /\ Request.before.blocked /\ ~Request.limited
  /\ Request.before.idle = ExpirySeconds
  /\ Request.requests = 1
  /\ Request.response.success


\* ------------------------------------- AssistantService.getGPTResponse, per day
\* The requests of one user on one UTC day whose prompt passed the keyword
\* check. Each request reads the counter of the day (redis.get), compares it
\* with the limit and increments it in a second command (multi incr expire),
\* fetches the analysis data and starts the completion call. The awaits let
\* the requests of the workers interleave, and each call may reject, which
\* ends the request with an internal error.
DailyLimit == 10

\* const used = await redis.get(dayKey)
GetUsage(w, ok) ==
  /\ workers[w].pc = "idle"
  /\ workers' = [workers EXCEPT ![w] = IF ok THEN [pc |-> "read", used |-> usage.used]
                                        ELSE Idle]
  /\ UNCHANGED <<sessions, jira, pendingAssigned, finalized, last, received, outside>>

\* if (used && parseInt(used) >= 10) return tooManyRequests;
\* await redis.multi().incr(dayKey).expire(dayKey, 86400).exec()
CountUsage(w, ok) ==
  /\ workers[w].pc = "read"
  /\ IF workers[w].used >= DailyLimit
       THEN /\ workers' = [workers EXCEPT ![w] = Idle]
            /\ UNCHANGED usage
       ELSE IF ok
         THEN /\ workers' = [workers EXCEPT ![w] = [pc |-> "counted"]]
              /\ usage' = [usage EXCEPT !.used = @ + 1]
         ELSE /\ workers' = [workers EXCEPT ![w] = Idle]
              /\ UNCHANGED usage
  /\ UNCHANGED <<sessions, jira, pendingAssigned, finalized, last, received, detected, service>>

\* const { data } = await axios.get(apiUrl); ...
\* await openai.chat.completions.create(...)
Complete(w, fetched) ==
  /\ workers[w].pc = "counted"
  /\ workers' = [workers EXCEPT ![w] = Idle]
  /\ usage' = [usage EXCEPT !.started = IF fetched THEN @ + 1 ELSE @]
  /\ UNCHANGED <<sessions, jira, pendingAssigned, finalized, last, received, detected, service>>

NextUsage ==
  \E w \in Workers, ok \in BOOLEAN :
    \/ GetUsage(w, ok)
    \/ CountUsage(w, ok)
    \/ Complete(w, ok)

SpecUsage == Init /\ [][NextUsage]_vars

\* ------------------------------------------------------------------- C30
\* C30: on one UTC day at most 10 completion calls are started for a user,
\* also when the user's requests are processed at the same time.
C30_DailyLimit == usage.started <= DailyLimit

====
